---- MODULE Spec2Model ----
(***************************************************************************)
(* Model of the Lua chain runner (src/src/main.rs) and of the Lua-selected *)
(* native chain (src/src/lua_config.rs).                                   *)
(*                                                                         *)
(* Lua tables are reference values: the model keeps a heap of tables and   *)
(* passes references, so that a handler that updates the table it was      *)
(* given and a handler that returns a new table are different behaviours.  *)
(***************************************************************************)
EXTENDS Integers, Sequences, FiniteSets, TLC

\* ------------------------------------------------------------------ bounds
MaxEvents == 2
MaxMw == 2
MaxRuns == 2

\* ------------------------------------------------------ 64-bit integers
\* An i64 is written by its distance from 0, from i64::MAX or from i64::MIN:
\* [near |-> "zero", off |-> n] is n, [near |-> "max", off |-> -n] is
\* i64::MAX - n and [near |-> "min", off |-> n] is i64::MIN + n.
I64(n) == [near |-> "zero", off |-> n]
I64_MAX == [near |-> "max", off |-> 0]
I64_MIN == [near |-> "min", off |-> 0]

\* x + 1 as the integers have it (for i64::MAX a number that is no i64).
Succ(x) == [x EXCEPT !.off = @ + 1]
\* x + 1 in two's complement (Lua integers; Rust without overflow checks).
wrapping_add1(x) == IF x = I64_MAX THEN I64_MIN ELSE Succ(x)

\* ------------------------------------------------------------- Lua values
LuaNil == [kind |-> "nil", v |-> 0]
LuaInteger(i) == [kind |-> "int", v |-> i]
LuaNumber(x) == [kind |-> "float", v |-> x]
LuaString(s) == [kind |-> "str", v |-> s]

\* A text is a sequence of tokens; a token is a pair (word, index).
Tok(w) == <<w, 0>>

\* A context table: the two keys the handlers of the repository use.
Table(c, m) == [counter |-> c, message |-> m]

InitContexts ==
    { Table(LuaInteger(I64(0)), LuaString(<<Tok("start")>>)),
      Table(LuaInteger(I64(1)), LuaNil) }

\* ------------------------------------------------- handlers (Lua callables)
\* Event handlers, by behaviour:
\*   inc        updates the table it was given (counter + 1) and returns it
\*   stamp_new  returns a new table whose message has the counter's value
\*              appended, leaving the given table alone
\*   fail       raises an error
EventKinds == {"inc", "stamp_new", "fail"}

\* Middleware handlers, by behaviour:
\*   pass     return next(ctx)
\*   pre_new  builds a new table with a mark and returns next(new)
\*   post     r = next(ctx); marks r in place; returns r
\*   skip     returns ctx without calling next
\*   twice    next(ctx); return next(ctx)
\*   fail     raises an error before calling next
MwKinds == {"pass", "pre_new", "post", "skip", "twice", "fail"}

CounterOf(t) == IF t.counter.kind = "int" THEN t.counter.v ELSE I64(0)
MessageOf(t) == IF t.message.kind = "str" THEN t.message.v ELSE <<>>

IncTable(t) == [t EXCEPT !.counter = LuaInteger(wrapping_add1(CounterOf(t)))]
StampTable(t) ==
    [t EXCEPT !.message = LuaString(Append(MessageOf(t), <<"seen", CounterOf(t).off>>))]
PreTable(t, i) == [t EXCEPT !.message = LuaString(Append(MessageOf(t), <<"pre", i>>))]
PostTable(t, i) == [t EXCEPT !.message = LuaString(Append(MessageOf(t), <<"post", i>>))]

\* --------------------------------------------------------- chain definition
\* A chain definition: the fields that are present, the context table, the
\* event entries and the middleware entries, each entry named by the
\* behaviour of its handler ("nil": an entry without a handler function).
ChainDef(fs, c, es, ms) == [fields |-> fs, context |-> c, events |-> es, middleware |-> ms]

AllFields == {"context", "events", "middleware"}

\* The definitions with at most one defect: a missing field, or one entry
\* without a handler.
Defects(ne, nm) ==
    {<<"none", 0>>} \cup {<<f, 0>> : f \in AllFields}
    \cup {<<"event", i>> : i \in 1..ne} \cup {<<"mw", i>> : i \in 1..nm}

WithDefect(c, es, ms, d) ==
    ChainDef(IF d[1] \in AllFields THEN AllFields \ {d[1]} ELSE AllFields,
             c,
             IF d[1] = "event" THEN [es EXCEPT ![d[2]] = "nil"] ELSE es,
             IF d[1] = "mw" THEN [ms EXCEPT ![d[2]] = "nil"] ELSE ms)

\* ------------------------------------------------ lua_config.rs: the script
\* The names an events list may hold: the two registered names and one that
\* differs from a registered name by case only.
EventNames == {"increment", "append", "Increment"}

\* The context tables of a script: an integer, a float or no counter; a text
\* (one of them with a byte that is no UTF-8) or no message.
ScriptContexts ==
    { Table(c, m) :
        c \in {LuaNil, LuaInteger(I64(0)), LuaInteger(I64_MAX), LuaNumber(1)},
        m \in {LuaNil, LuaString(<<Tok("start")>>), LuaString(<<Tok("start"), Tok("xFF")>>)} }

ScriptFields == {{"context", "events"}, {"events"}, {"context"}}

\* ------------------------------------------------------------ EventContext
EventContext_new == Table(LuaNil, LuaNil)
Set(ctx, key, value) == [ctx EXCEPT ![key] = value]
\* get::<T>(key): the value when it is present and of the kind asked for.
Get(ctx, key, kind) ==
    IF ctx[key].kind = kind THEN [some |-> TRUE, v |-> ctx[key].v]
    ELSE [some |-> FALSE, v |-> 0]
unwrap_or(opt, default) == IF opt.some THEN opt.v ELSE default

\* ------------------------------------------------------- registered events
\* (an absent counter is left absent)
IncrementEvent_execute_strict(ctx, bld) ==
    LET got == Get(ctx, "counter", "int") IN
        IF ~got.some THEN [panic |-> FALSE, context |-> ctx]
        ELSE IF bld = "debug" /\ got.v = I64_MAX THEN [panic |-> TRUE, context |-> ctx]
        ELSE [panic |-> FALSE,
              context |-> Set(ctx, "counter", LuaInteger(wrapping_add1(got.v)))]

\* IncrementEvent::execute: the context after it, or a panic (the overflow
\* check of a debug build).
IncrementEvent_execute(ctx, bld) ==
    LET counter == unwrap_or(Get(ctx, "counter", "int"), I64(0)) IN
        IF bld = "debug" /\ counter = I64_MAX
        THEN [panic |-> TRUE, context |-> ctx]
        ELSE [panic |-> FALSE,
              context |-> Set(ctx, "counter", LuaInteger(wrapping_add1(counter)))]

\* (an append that leaves the stored message as it was)
AppendEvent_execute_keep(ctx) == [panic |-> FALSE, context |-> ctx]

AppendEvent_execute(ctx) ==
    LET message == unwrap_or(Get(ctx, "message", "str"), <<>>) IN
        [panic |-> FALSE,
         context |-> Set(ctx, "message", LuaString(Append(message, Tok(" -> processed"))))]

RegisteredEvent_execute(e, ctx, bld) ==
    IF e = "Increment" THEN IncrementEvent_execute(ctx, bld) ELSE AppendEvent_execute(ctx)

\* to_string_lossy: a byte that is no UTF-8 becomes U+FFFD.
to_string_lossy(s) == [i \in 1..Len(s) |-> IF s[i] = Tok("xFF") THEN Tok("U+FFFD") ELSE s[i]]

\* The EventContext extracted from a script's context table.
ExtractValue(value) ==
    CASE value.kind = "int" -> value
      [] value.kind = "str" -> LuaString(to_string_lossy(value.v))
      [] OTHER -> LuaNil
ExtractContext(t) == [key \in DOMAIN t |-> ExtractValue(t[key])]

\* The registered event of a name ("" when the name is unknown).
ResolveName(name) ==
    CASE name = "increment" -> "Increment"
      [] name = "append" -> "Append"
      [] OTHER -> ""

\* ------------------------------------------------------------------- state
VARIABLES
    prog,                 \* the binary that runs: "main" or "lua_config"
    build,                \* "debug" (overflow checks) or "release"
    stage,                \* lua_config: "hardcoded" or "lua" chain
    context,              \* lua_config: the EventContext handed to the chain
    chain,                \* lua_config: the events of the EventChain
    chain_def,            \* the chain definition handed to from_definition
    phase,                \* Building, Ready, Running, Completed, Aborted, BuildFailed
    event_handlers,       \* LuaChainRunnerInner.event_handlers
    middleware_handlers,  \* LuaChainRunnerInner.middleware_handlers
    heap,                 \* the Lua tables, by reference (index)
    gctx,                 \* the Lua global __context: a reference, 0 when unset
    stack,                \* the call stack of a running execute
    event_idx,            \* execute's loop variable
    err,                  \* the error being returned
    runs,                 \* number of execute calls started
    log,                  \* handler invocations of the current run, in order
    run_ctx,              \* contents of the shared context when the run started
    pos_ctx,              \* contents of the shared context when the position started
    results,              \* outcome of every finished execute
    cmp                   \* the comparison of the two composition functions

Inputs == <<prog, build, chain_def, cmp>>
RsVars == <<stage, context, chain>>
Handlers == <<event_handlers, middleware_handlers>>
MainVars == <<event_handlers, middleware_handlers, heap, gctx, stack>>

vars == <<Inputs, RsVars, MainVars, run_ctx, phase, event_idx, err, runs, log, pos_ctx,
          results>>

NoErr == [kind |-> "none", who |-> "", idx |-> 0]
BuildErr(what, i) == [kind |-> "build", who |-> what, idx |-> i]
HandlerErr(who, i) == [kind |-> "handler", who |-> who, idx |-> i]

NumMw == Len(middleware_handlers)
NumEvents == Len(event_handlers)

Top == stack[Len(stack)]
Pop(s) == SubSeq(s, 1, Len(s) - 1)
SetTop(s, f) == [s EXCEPT ![Len(s)] = f]

\* Frames of the call stack. A "stack" frame is a call of
\* execute_middleware_stack (static = FALSE) or of
\* execute_middleware_stack_static (static = TRUE) with middleware_index =
\* depth. A "mw" frame is a running middleware handler: idx is its index in
\* middleware_handlers, ctx the table it was given, depth the next_mw_index
\* its continuation captured, calls the continuation calls that returned, r
\* what the last one returned. A "next" frame is a running continuation
\* (next_fn), created by the function `static` says, called with ctx.
StackFrame(d, st) ==
    [k |-> "stack", static |-> st, depth |-> d, idx |-> 0, ctx |-> 0, pc |-> "entry",
     r |-> 0, calls |-> 0]
MwFrame(i, c, d, st) ==
    [k |-> "mw", static |-> st, depth |-> d, idx |-> i, ctx |-> c, pc |-> "run",
     r |-> 0, calls |-> 0]
NextFrame(d, c, st) ==
    [k |-> "next", static |-> st, depth |-> d, idx |-> 0, ctx |-> c, pc |-> "entry",
     r |-> 0, calls |-> 0]

\* No comparison is going on.
CmpOff == [stage |-> "off", depth |-> 0, event_idx |-> 0, heap |-> <<>>, gctx |-> 0,
           first |-> <<>>]

InitMain ==
    /\ prog = "main"
    /\ \E c \in InitContexts, ne \in 0..MaxEvents, nm \in 0..MaxMw :
        \E es \in [1..ne -> EventKinds], ms \in [1..nm -> MwKinds], d \in Defects(ne, nm) :
            chain_def = WithDefect(c, es, ms, d)
    /\ phase = "Building"

InitLuaConfig ==
    /\ prog = "lua_config"
    /\ \E c \in ScriptContexts, ne \in 0..MaxEvents, fs \in ScriptFields :
        \E es \in [1..ne -> EventNames] :
            chain_def = ChainDef(fs, c, es, <<>>)
    /\ phase = "Start"

\* The build decides integer overflow only, and only lua_config adds
\* integers in Rust.
Init ==
    /\ \/ InitMain /\ build = "debug"
       \/ InitLuaConfig /\ build \in {"debug", "release"}
    /\ stage = "hardcoded"
    /\ context = EventContext_new
    /\ chain = <<>>
    /\ event_handlers = <<>>
    /\ middleware_handlers = <<>>
    /\ heap = <<chain_def.context>>
    /\ gctx = 0
    /\ stack = <<>>
    /\ event_idx = 0
    /\ err = NoErr
    /\ runs = 0
    /\ log = <<>>
    /\ run_ctx = chain_def.context
    /\ pos_ctx = chain_def.context
    /\ results = <<>>
    /\ cmp = CmpOff

\* ---------------------------------------------------------- from_definition
FirstNil(s) == CHOOSE i \in 1..Len(s) : s[i] = "nil" /\ \A j \in 1..(i - 1) : s[j] # "nil"
HasNil(s) == \E i \in 1..Len(s) : s[i] = "nil"

\* The error from_definition returns for a definition, NoErr when it builds.
BuildResult(d) ==
    IF "context" \notin d.fields THEN BuildErr("context", 0)
    ELSE IF "events" \notin d.fields THEN BuildErr("events", 0)
    ELSE IF HasNil(d.events) THEN BuildErr("event", FirstNil(d.events))
    ELSE IF "middleware" \notin d.fields THEN BuildErr("middleware", 0)
    ELSE IF HasNil(d.middleware) THEN BuildErr("middleware_handler", FirstNil(d.middleware))
    ELSE NoErr

from_definition ==
    /\ prog = "main"
    /\ phase = "Building"
    /\ LET e == BuildResult(chain_def) IN
        /\ gctx' = IF "context" \in chain_def.fields THEN 1 ELSE 0
        /\ IF e = NoErr
           THEN /\ phase' = "Ready"
                /\ event_handlers' = chain_def.events
                /\ middleware_handlers' = chain_def.middleware
                /\ err' = NoErr
           ELSE /\ phase' = "BuildFailed"
                /\ err' = e
                /\ UNCHANGED <<Handlers>>
    /\ UNCHANGED <<Inputs, RsVars, run_ctx, heap, stack, event_idx, runs, log, pos_ctx,
                   results>>

\* ------------------------------------------------------------------ execute
\* (a loop that steps over an event)
ReturnOk_skip(s) ==
    /\ stack' = s
    /\ event_idx' = IF s = <<>> THEN event_idx + 2 ELSE event_idx

\* A frame returns Ok to its caller; when the caller is execute's loop the
\* loop moves on to the next event index.
ReturnOk(s) ==
    /\ stack' = s
    /\ event_idx' = IF s = <<>> THEN event_idx + 1 ELSE event_idx

\* (a loop that starts at the second event)
execute_skip_first ==
    /\ prog = "main"
    /\ phase \in {"Ready", "Completed"}
    /\ runs < MaxRuns
    /\ phase' = "Running"
    /\ runs' = runs + 1
    /\ event_idx' = IF NumEvents > 1 THEN 1 ELSE 0
    /\ log' = <<>>
    /\ run_ctx' = heap[gctx]
    /\ pos_ctx' = heap[gctx]
    /\ UNCHANGED <<Inputs, RsVars, Handlers, heap, gctx, stack, err, results>>

execute ==
    /\ prog = "main"
    /\ phase \in {"Ready", "Completed"}
    /\ runs < MaxRuns
    /\ phase' = "Running"
    /\ runs' = runs + 1
    /\ event_idx' = 0
    /\ log' = <<>>
    /\ run_ctx' = heap[gctx]
    /\ pos_ctx' = heap[gctx]
    /\ UNCHANGED <<Inputs, RsVars, Handlers, heap, gctx, stack, err, results>>

\* (the middleware wrapped around the first event only)
execute_with_middleware_once ==
    /\ prog = "main"
    /\ phase = "Running"
    /\ stack = <<>>
    /\ err = NoErr
    /\ event_idx < NumEvents
    /\ stack' = <<StackFrame(IF event_idx = 0 THEN 0 ELSE NumMw, FALSE)>>
    /\ pos_ctx' = heap[gctx]
    /\ UNCHANGED <<Inputs, RsVars, run_ctx, phase, Handlers, heap, gctx, event_idx,
                   err, runs, log, results>>

execute_with_middleware ==
    /\ prog = "main"
    /\ phase = "Running"
    /\ stack = <<>>
    /\ err = NoErr
    /\ event_idx < NumEvents
    /\ stack' = <<StackFrame(0, FALSE)>>
    /\ pos_ctx' = heap[gctx]
    /\ UNCHANGED <<Inputs, RsVars, run_ctx, phase, Handlers, heap, gctx, event_idx,
                   err, runs, log, results>>

\* (an execute that reports completion whatever the loop returned)
execute_return_always_completed ==
    /\ prog = "main"
    /\ phase = "Running"
    /\ stack = <<>>
    /\ err # NoErr \/ event_idx >= NumEvents
    /\ phase' = "Completed"
    /\ results' = Append(results, [outcome |-> "Success", reason |-> NoErr,
                                   context |-> heap[gctx]])
    /\ UNCHANGED <<Inputs, RsVars, run_ctx, Handlers, heap, gctx, stack, event_idx,
                   err, runs, log, pos_ctx>>

execute_return ==
    /\ prog = "main"
    /\ phase = "Running"
    /\ stack = <<>>
    /\ \/ /\ err = NoErr
          /\ event_idx >= NumEvents
          /\ phase' = "Completed"
          /\ results' = Append(results, [outcome |-> "Success", reason |-> NoErr,
                                         context |-> heap[gctx]])
       \/ /\ err # NoErr
          /\ phase' = "Aborted"
          /\ results' = Append(results, [outcome |-> "Failure", reason |-> err,
                                         context |-> heap[gctx]])
    /\ UNCHANGED <<Inputs, RsVars, run_ctx, Handlers, heap, gctx, stack, event_idx,
                   err, runs, log, pos_ctx>>

\* The call of an event handler with the table `c` (handler.call(context)):
\* the new heap, the returned reference, and whether it raised.
CallEvent(kind, c) ==
    CASE kind = "inc" -> [ok |-> TRUE, heap |-> [heap EXCEPT ![c] = IncTable(@)], ret |-> c]
      [] kind = "stamp_new" -> [ok |-> TRUE, heap |-> Append(heap, StampTable(heap[c])),
                              ret |-> Len(heap) + 1]
      [] OTHER -> [ok |-> FALSE, heap |-> heap, ret |-> c]

\* (the depth is left out of the index)
mw_idx_outermost(middleware_index) == NumMw - 1

\* The middleware a depth selects (reverse order)
mw_idx(middleware_index) == NumMw - 1 - middleware_index
\* (registration order instead of reverse order)
mw_idx_fifo(middleware_index) == middleware_index
mw_idx_static(middleware_index) == NumMw - 1 - middleware_index

\* (the middleware's return value is dropped: __context stays as the inner
\* composition left it)
execute_middleware_stack_nostore ==
    /\ phase = "Running" /\ err = NoErr /\ stack # <<>>
    /\ Top.k = "stack" /\ ~Top.static
    /\ \/ /\ Top.pc = "entry"
          /\ Top.depth >= NumMw
          /\ LET res == CallEvent(event_handlers[event_idx + 1], gctx) IN
              /\ log' = Append(log, <<"event", event_idx, event_idx>>)
              /\ heap' = res.heap
              /\ IF res.ok
                 THEN /\ gctx' = res.ret
                      /\ ReturnOk(Pop(stack))
                      /\ err' = NoErr
                 ELSE /\ err' = HandlerErr("event", event_idx)
                      /\ UNCHANGED <<gctx, stack, event_idx>>
       \/ /\ Top.pc = "entry"
          /\ Top.depth < NumMw
          /\ stack' = Append(SetTop(stack, [Top EXCEPT !.pc = "await"]),
                             MwFrame(mw_idx(Top.depth), gctx, Top.depth + 1, FALSE))
          /\ log' = Append(log, <<"enter", mw_idx(Top.depth), event_idx>>)
          /\ UNCHANGED <<heap, gctx, event_idx, err>>
       \/ /\ Top.pc = "returned"
          /\ ReturnOk(Pop(stack))
          /\ UNCHANGED <<heap, gctx, err, log>>
    /\ UNCHANGED <<Inputs, RsVars, run_ctx, phase, Handlers, runs, pos_ctx, results>>

\* execute_middleware_stack (the entry at depth 0)
execute_middleware_stack ==
    /\ phase = "Running" /\ err = NoErr /\ stack # <<>>
    /\ Top.k = "stack" /\ ~Top.static
    /\ \/ \* base case: the event handler
          /\ Top.pc = "entry"
          /\ Top.depth >= NumMw
          /\ LET res == CallEvent(event_handlers[event_idx + 1], gctx) IN
              /\ log' = Append(log, <<"event", event_idx, event_idx>>)
              /\ heap' = res.heap
              /\ IF res.ok
                 THEN /\ gctx' = res.ret
                      /\ ReturnOk(Pop(stack))
                      /\ err' = NoErr
                 ELSE /\ err' = HandlerErr("event", event_idx)
                      /\ UNCHANGED <<gctx, stack, event_idx>>
       \/ \* middleware in reverse order
          /\ Top.pc = "entry"
          /\ Top.depth < NumMw
          /\ LET next_mw_index == Top.depth + 1 IN
              /\ stack' = Append(SetTop(stack, [Top EXCEPT !.pc = "await"]),
                                 MwFrame(mw_idx(Top.depth), gctx, next_mw_index, FALSE))
              /\ log' = Append(log, <<"enter", mw_idx(Top.depth), event_idx>>)
          /\ UNCHANGED <<heap, gctx, event_idx, err>>
       \/ \* the middleware returned: its result becomes the context
          /\ Top.pc = "returned"
          /\ gctx' = Top.r
          /\ ReturnOk(Pop(stack))
          /\ UNCHANGED <<heap, err, log>>
    /\ UNCHANGED <<Inputs, RsVars, run_ctx, phase, Handlers, runs, pos_ctx, results>>

\* execute_middleware_stack_static (called by the continuation)
execute_middleware_stack_static ==
    /\ phase = "Running" /\ err = NoErr /\ stack # <<>>
    /\ Top.k = "stack" /\ Top.static
    /\ \/ /\ Top.pc = "entry"
          /\ Top.depth >= NumMw
          /\ LET res == CallEvent(event_handlers[event_idx + 1], gctx) IN
              /\ log' = Append(log, <<"event", event_idx, event_idx>>)
              /\ heap' = res.heap
              /\ IF res.ok
                 THEN /\ gctx' = res.ret
                      /\ ReturnOk(Pop(stack))
                      /\ err' = NoErr
                 ELSE /\ err' = HandlerErr("event", event_idx)
                      /\ UNCHANGED <<gctx, stack, event_idx>>
       \/ /\ Top.pc = "entry"
          /\ Top.depth < NumMw
          /\ LET next_mw_index == Top.depth + 1 IN
              /\ stack' = Append(SetTop(stack, [Top EXCEPT !.pc = "await"]),
                                 MwFrame(mw_idx_static(Top.depth), gctx, next_mw_index, TRUE))
              /\ log' = Append(log, <<"enter", mw_idx_static(Top.depth), event_idx>>)
          /\ UNCHANGED <<heap, gctx, event_idx, err>>
       \/ /\ Top.pc = "returned"
          /\ gctx' = Top.r
          /\ ReturnOk(Pop(stack))
          /\ UNCHANGED <<heap, err, log>>
    /\ UNCHANGED <<Inputs, RsVars, run_ctx, phase, Handlers, runs, pos_ctx, results>>

\* (a continuation that goes two levels deeper)
next_fn_overshoot ==
    /\ phase = "Running" /\ err = NoErr /\ stack # <<>>
    /\ Top.k = "next" /\ ~Top.static
    /\ \/ /\ Top.pc = "entry"
          /\ gctx' = Top.ctx
          /\ stack' = Append(SetTop(stack, [Top EXCEPT !.pc = "await"]),
                             StackFrame(Top.depth + 1, TRUE))
       \/ /\ Top.pc = "await"
          /\ LET caller == stack[Len(stack) - 1] IN
              stack' = SetTop(Pop(stack),
                              [caller EXCEPT !.pc = "run", !.r = Top.ctx, !.calls = @ + 1])
          /\ UNCHANGED gctx
    /\ UNCHANGED <<Inputs, RsVars, run_ctx, phase, Handlers, heap, event_idx, err,
                   runs, log, pos_ctx, results>>

\* The continuation created by execute_middleware_stack
next_fn ==
    /\ phase = "Running" /\ err = NoErr /\ stack # <<>>
    /\ Top.k = "next" /\ ~Top.static
    /\ \/ /\ Top.pc = "entry"
          /\ gctx' = Top.ctx
          /\ stack' = Append(SetTop(stack, [Top EXCEPT !.pc = "await"]),
                             StackFrame(Top.depth, TRUE))
       \/ \* the stack returned Ok: hand the table that was passed in back
          /\ Top.pc = "await"
          /\ LET caller == stack[Len(stack) - 1] IN
              stack' = SetTop(Pop(stack),
                              [caller EXCEPT !.pc = "run", !.r = Top.ctx, !.calls = @ + 1])
          /\ UNCHANGED gctx
    /\ UNCHANGED <<Inputs, RsVars, run_ctx, phase, Handlers, heap, event_idx, err,
                   runs, log, pos_ctx, results>>

\* (a continuation that returns without going deeper)
next_fn_static_shallow ==
    /\ phase = "Running" /\ err = NoErr /\ stack # <<>>
    /\ Top.k = "next" /\ Top.static
    /\ \/ /\ Top.pc = "entry"
          /\ gctx' = Top.ctx
          /\ stack' = SetTop(stack, [Top EXCEPT !.pc = "await"])
       \/ /\ Top.pc = "await"
          /\ LET caller == stack[Len(stack) - 1] IN
              stack' = SetTop(Pop(stack),
                              [caller EXCEPT !.pc = "run", !.r = Top.ctx, !.calls = @ + 1])
          /\ UNCHANGED gctx
    /\ UNCHANGED <<Inputs, RsVars, run_ctx, phase, Handlers, heap, event_idx, err,
                   runs, log, pos_ctx, results>>

\* The continuation created by execute_middleware_stack_static
next_fn_static ==
    /\ phase = "Running" /\ err = NoErr /\ stack # <<>>
    /\ Top.k = "next" /\ Top.static
    /\ \/ /\ Top.pc = "entry"
          /\ gctx' = Top.ctx
          /\ stack' = Append(SetTop(stack, [Top EXCEPT !.pc = "await"]),
                             StackFrame(Top.depth, TRUE))
       \/ /\ Top.pc = "await"
          /\ LET caller == stack[Len(stack) - 1] IN
              stack' = SetTop(Pop(stack),
                              [caller EXCEPT !.pc = "run", !.r = Top.ctx, !.calls = @ + 1])
          /\ UNCHANGED gctx
    /\ UNCHANGED <<Inputs, RsVars, run_ctx, phase, Handlers, heap, event_idx, err,
                   runs, log, pos_ctx, results>>

\* What a middleware handler of a kind does next, given the continuation
\* calls that have returned: call the continuation, return, or raise.
MwMove(kind, calls) ==
    CASE kind = "skip" -> "return"
      [] kind = "fail" -> "raise"
      [] kind = "twice" -> IF calls < 2 THEN "call" ELSE "return"
      [] OTHER -> IF calls < 1 THEN "call" ELSE "return"

\* One step of a running middleware handler.
middleware_handler ==
    /\ phase = "Running" /\ err = NoErr /\ stack # <<>>
    /\ Top.k = "mw" /\ Top.pc = "run"
    /\ LET kind == middleware_handlers[Top.idx + 1]
           move == MwMove(kind, Top.calls) IN
        \/ /\ move = "call"
           /\ IF kind = "pre_new"
              THEN /\ heap' = Append(heap, PreTable(heap[Top.ctx], Top.idx))
                   /\ stack' = Append(SetTop(stack, [Top EXCEPT !.pc = "wait"]),
                                      NextFrame(Top.depth, Len(heap) + 1, Top.static))
              ELSE /\ heap' = heap
                   /\ stack' = Append(SetTop(stack, [Top EXCEPT !.pc = "wait"]),
                                      NextFrame(Top.depth, Top.ctx, Top.static))
           /\ UNCHANGED <<err, log>>
        \/ /\ move = "return"
           /\ LET ret == IF kind = "skip" THEN Top.ctx ELSE Top.r
                  caller == stack[Len(stack) - 1] IN
               /\ heap' = IF kind = "post"
                           THEN [heap EXCEPT ![ret] = PostTable(@, Top.idx)]
                           ELSE heap
               /\ stack' = SetTop(Pop(stack), [caller EXCEPT !.pc = "returned", !.r = ret])
           /\ log' = Append(log, <<"exit", Top.idx, event_idx>>)
           /\ UNCHANGED err
        \/ /\ move = "raise"
           /\ err' = HandlerErr("middleware", Top.idx)
           /\ UNCHANGED <<heap, stack, log>>
    /\ UNCHANGED <<Inputs, RsVars, run_ctx, phase, Handlers, gctx, event_idx, runs,
                   pos_ctx, results>>

\* (a failure that is swallowed where it is caught)
propagate_error_swallow ==
    /\ phase = "Running" /\ err # NoErr /\ stack # <<>>
    /\ stack' = <<>>
    /\ err' = NoErr
    /\ event_idx' = event_idx + 1
    /\ UNCHANGED <<Inputs, RsVars, run_ctx, phase, Handlers, heap, gctx, runs, log,
                   pos_ctx, results>>

\* (an unwinding that stores the context of the middleware it leaves)
propagate_error_store ==
    /\ phase = "Running" /\ err # NoErr /\ stack # <<>>
    /\ stack' = Pop(stack)
    /\ gctx' = IF Top.k = "mw" THEN Top.ctx ELSE gctx
    /\ UNCHANGED <<Inputs, RsVars, run_ctx, phase, Handlers, heap, event_idx,
                   err, runs, log, pos_ctx, results>>

\* An error returns through every frame (the ? operator, and Lua's error
\* propagation through a handler that does not catch it).
propagate_error ==
    /\ phase = "Running" /\ err # NoErr /\ stack # <<>>
    /\ stack' = Pop(stack)
    /\ UNCHANGED <<Inputs, RsVars, run_ctx, phase, Handlers, heap, gctx, event_idx,
                   err, runs, log, pos_ctx, results>>

\* ------------------------------------------------------------ lua_config.rs
\* The hardcoded chain and its context
hardcoded_chain ==
    /\ prog = "lua_config" /\ phase = "Start"
    /\ context' = Set(Set(EventContext_new, "counter", LuaInteger(I64(0))),
                      "message", LuaString(<<Tok("start")>>))
    /\ chain' = <<"Increment", "Append">>
    /\ stage' = "hardcoded"
    /\ phase' = "Ready"
    /\ UNCHANGED <<Inputs, event_idx, err, runs, log, run_ctx, pos_ctx, results,
                   MainVars>>

\* The script is evaluated: once after the hardcoded chain, and again in
\* every iteration of the repeated execution.
parse_lua ==
    /\ prog = "lua_config" /\ phase = "Completed"
    /\ stage = "hardcoded" \/ runs < MaxRuns
    /\ stage' = "lua"
    /\ phase' = "Parsed"
    /\ log' = <<>>
    /\ UNCHANGED <<Inputs, context, chain, event_idx, err, runs, run_ctx, pos_ctx,
                   results, MainVars>>

extract_context ==
    /\ prog = "lua_config" /\ phase = "Parsed"
    /\ IF "context" \in chain_def.fields
       THEN /\ context' = ExtractContext(chain_def.context)
            /\ phase' = "Building"
            /\ err' = NoErr
       ELSE /\ context' = context
            /\ phase' = "BuildFailed"
            /\ err' = BuildErr("context", 0)
    /\ UNCHANGED <<Inputs, stage, chain, event_idx, runs, log, run_ctx, pos_ctx,
                   results, MainVars>>

\* (a name that does not resolve is passed over)
BuildChainResult_lenient(d) ==
    IF "events" \notin d.fields THEN BuildErr("events", 0) ELSE NoErr

\* The error of building the chain from the names, NoErr when all resolve.
BuildChainResult(d) ==
    IF "events" \notin d.fields THEN BuildErr("events", 0)
    ELSE IF \E i \in 1..Len(d.events) : ResolveName(d.events[i]) = ""
    THEN LET i == CHOOSE i \in 1..Len(d.events) :
                    /\ ResolveName(d.events[i]) = ""
                    /\ \A j \in 1..(i - 1) : ResolveName(d.events[j]) # ""
         IN BuildErr(d.events[i], i)
    ELSE NoErr

build_chain ==
    /\ prog = "lua_config" /\ phase = "Building"
    /\ LET e == BuildChainResult(chain_def) IN
        /\ err' = e
        /\ IF e = NoErr
           THEN /\ chain' = [i \in 1..Len(chain_def.events) |->
                                ResolveName(chain_def.events[i])]
                /\ phase' = "Ready"
           ELSE /\ chain' = chain
                /\ phase' = "BuildFailed"
    /\ UNCHANGED <<Inputs, stage, context, event_idx, runs, log, run_ctx, pos_ctx,
                   results, MainVars>>

\* EventChain::execute: the events in order, each on the context.
chain_execute ==
    /\ prog = "lua_config" /\ phase = "Ready"
    /\ phase' = "Running"
    /\ event_idx' = 0
    /\ runs' = IF stage = "lua" THEN runs + 1 ELSE runs
    /\ log' = <<>>
    /\ run_ctx' = context
    /\ pos_ctx' = context
    /\ UNCHANGED <<Inputs, RsVars, err, results, MainVars>>

chain_execute_event ==
    /\ prog = "lua_config" /\ phase = "Running"
    /\ event_idx < Len(chain)
    /\ LET res == RegisteredEvent_execute(chain[event_idx + 1], context, build) IN
        /\ log' = Append(log, <<"event", event_idx, event_idx>>)
        /\ context' = res.context
        /\ IF res.panic
           THEN /\ phase' = "Panicked"
                /\ event_idx' = event_idx
           ELSE /\ phase' = phase
                /\ event_idx' = event_idx + 1
    /\ pos_ctx' = context
    /\ UNCHANGED <<Inputs, stage, chain, err, runs, run_ctx, results, MainVars>>

chain_execute_return ==
    /\ prog = "lua_config" /\ phase = "Running"
    /\ event_idx >= Len(chain)
    /\ phase' = "Completed"
    /\ results' = Append(results, [outcome |-> "Success", reason |-> NoErr,
                                   context |-> context])
    /\ UNCHANGED <<Inputs, RsVars, run_ctx, event_idx, err, runs, log, pos_ctx,
                   MainVars>>

Next ==
    \/ from_definition
    \/ execute
    \/ execute_with_middleware
    \/ execute_return
    \/ execute_middleware_stack
    \/ execute_middleware_stack_static
    \/ next_fn
    \/ next_fn_static
    \/ middleware_handler
    \/ propagate_error
    \/ hardcoded_chain
    \/ parse_lua
    \/ extract_context
    \/ build_chain
    \/ chain_execute
    \/ chain_execute_event
    \/ chain_execute_return

Spec == Init /\ [][Next]_vars

\* The program is one sequential thread: a step that can be taken is taken.
\* No handler of the runner chooses its next move by the contents of the
\* context, so the runner starts from one context here, and of the event
\* handlers that differ in what they do to the tables only one is taken.
InitFair ==
    /\ Init
    /\ prog = "main"
        => /\ chain_def.context = Table(LuaInteger(I64(0)), LuaString(<<Tok("start")>>))
           /\ \A i \in 1..Len(chain_def.events) : chain_def.events[i] # "stamp_new"

FairSpec == InitFair /\ [][Next]_vars /\ WF_vars(Next)

\* ------------------------------------------- the two composition functions
\* execute_middleware_stack and execute_middleware_stack_static are each
\* called with the same handler lists, depth, event index and shared
\* context: first the one, then, from the same tables and __context, the
\* other. A call reads the event handler at its event index only: the
\* handlers at the other indices are left at one kind.
Observed == [log |-> log, heap |-> heap, gctx |-> gctx, err |-> err,
             event_idx |-> event_idx]

InitCompare ==
    /\ prog = "compare" /\ build = "debug"
    /\ \E c \in InitContexts, ne \in 1..MaxEvents, nm \in 0..MaxMw :
        \E k \in EventKinds, ms \in [1..nm -> MwKinds], d \in 0..nm, e \in 0..(ne - 1) :
            /\ chain_def = ChainDef(AllFields, c,
                                    [i \in 1..ne |-> IF i = e + 1 THEN k ELSE "inc"], ms)
            /\ event_handlers = chain_def.events
            /\ middleware_handlers = ms
            /\ heap = <<c>>
            /\ event_idx = e
            /\ run_ctx = c
            /\ pos_ctx = c
            /\ cmp = [stage |-> "start", depth |-> d, event_idx |-> e, heap |-> <<c>>,
                      gctx |-> 1, first |-> <<>>]
    /\ stage = "hardcoded"
    /\ context = EventContext_new
    /\ chain = <<>>
    /\ phase = "Running"
    /\ gctx = 1
    /\ stack = <<>>
    /\ err = NoErr
    /\ runs = 0
    /\ log = <<>>
    /\ results = <<>>

\* self.execute_middleware_stack(middleware_index, event_idx)
call_execute_middleware_stack ==
    /\ prog = "compare" /\ cmp.stage = "start"
    /\ stack' = <<StackFrame(cmp.depth, FALSE)>>
    /\ cmp' = [cmp EXCEPT !.stage = "first"]
    /\ UNCHANGED <<prog, build, chain_def, RsVars, Handlers, heap, gctx, run_ctx, phase,
                   event_idx, err, runs, log, pos_ctx, results>>

\* Self::execute_middleware_stack_static(&inner, middleware_index, event_idx),
\* from the tables and the __context the first call started with
call_execute_middleware_stack_static ==
    /\ prog = "compare" /\ cmp.stage = "first" /\ stack = <<>>
    /\ cmp' = [cmp EXCEPT !.stage = "second", !.first = Observed]
    /\ heap' = cmp.heap
    /\ gctx' = cmp.gctx
    /\ event_idx' = cmp.event_idx
    /\ err' = NoErr
    /\ log' = <<>>
    /\ stack' = <<StackFrame(cmp.depth, TRUE)>>
    /\ UNCHANGED <<prog, build, chain_def, RsVars, Handlers, run_ctx, phase, runs,
                   pos_ctx, results>>

\* The second call has returned.
compare_return ==
    /\ prog = "compare" /\ cmp.stage = "second" /\ stack = <<>>
    /\ cmp' = [cmp EXCEPT !.stage = "done"]
    /\ UNCHANGED <<prog, build, chain_def, RsVars, MainVars, run_ctx, phase, event_idx,
                   err, runs, log, pos_ctx, results>>

NextCompare ==
    \/ call_execute_middleware_stack
    \/ call_execute_middleware_stack_static
    \/ compare_return
    \/ execute_middleware_stack
    \/ execute_middleware_stack_static
    \/ next_fn
    \/ next_fn_static
    \/ middleware_handler
    \/ propagate_error

CompareSpec == InitCompare /\ [][NextCompare]_vars
\* ================================================================== claims
RECURSIVE ApplyEvents(_, _)
\* The event handlers of `kinds` applied one after another to the table t.
ApplyEvents(kinds, t) ==
    IF kinds = <<>> THEN t
    ELSE ApplyEvents(Tail(kinds), IF Head(kinds) = "inc" THEN IncTable(t) ELSE StampTable(t))

IsPrefix(a, b) == Len(a) <= Len(b) /\ SubSeq(b, 1, Len(a)) = a
Last(s) == s[Len(s)]
Count(s, e) == Cardinality({i \in 1..Len(s) : s[i] = e})

\* The part of the log that belongs to event position p.
PosLog(p) == SelectSeq(log, LAMBDA e : e[3] = p)

\* The middleware behaviours that invoke the continuation exactly once.
OnceKinds == {"pass", "pre_new", "post"}
AllOnce == \A i \in 1..NumMw : middleware_handlers[i] \in OnceKinds

\* C1: with an empty middleware stack and no failing handler, the shared
\* context after execute is the result of applying the event handlers in
\* declared order, each to the result of the one before, to the context the
\* run started with.
C1_FifoApplication ==
    (prog = "main" /\ phase = "Completed" /\ NumMw = 0)
        => /\ heap[gctx] = ApplyEvents(event_handlers, run_ctx)
           /\ Last(results).context = ApplyEvents(event_handlers, run_ctx)

C1_Witness ==
    /\ prog = "main" /\ phase = "Completed" /\ NumMw = 0
    /\ event_handlers = <<"inc", "stamp_new">>
    /\ heap[gctx] # run_ctx
    /\ heap[gctx] # ApplyEvents(<<"stamp_new", "inc">>, run_ctx)

\* The invocations of one event position with n middleware that each invoke
\* the continuation once: entered n-1 .. 0, the event, returned 0 .. n-1.
ExpectedPos(p, n) ==
    [i \in 1..(2 * n + 1) |->
        IF i <= n THEN <<"enter", n - i, p>>
        ELSE IF i = n + 1 THEN <<"event", p, p>>
        ELSE <<"exit", i - n - 2, p>>]

\* C2: when every middleware invokes its continuation exactly once, the
\* invocations of an event position are: the middleware entered in reverse
\* registration order, then the event handler, then the middleware returning
\* in registration order.
C2_LifoWrapping ==
    (prog = "main" /\ AllOnce)
        => \A p \in 0..(NumEvents - 1) :
            /\ IsPrefix(PosLog(p), ExpectedPos(p, NumMw))
            /\ (p < event_idx => PosLog(p) = ExpectedPos(p, NumMw))

C2_Witness ==
    /\ prog = "main" /\ phase = "Completed" /\ AllOnce /\ NumMw = 2
    /\ NumEvents >= 1
    /\ PosLog(0) = <<<<"enter", 1, 0>>, <<"enter", 0, 0>>, <<"event", 0, 0>>,
                     <<"exit", 0, 0>>, <<"exit", 1, 0>>>>

\* C3: in a run without failure in which every middleware invokes its
\* continuation exactly once, every middleware is entered once per event
\* position (E times in all), and every position starts its composition at
\* depth 0, with the outermost middleware.
C3_PerEventReentry ==
    (prog = "main" /\ AllOnce /\ NumMw >= 1)
        => /\ (phase = "Completed" =>
                \A i \in 0..(NumMw - 1) :
                    /\ \A p \in 0..(NumEvents - 1) : Count(log, <<"enter", i, p>>) = 1
                    /\ Cardinality({j \in 1..Len(log) :
                                        log[j][1] = "enter" /\ log[j][2] = i}) = NumEvents)
           /\ \A p \in 0..(NumEvents - 1) :
                PosLog(p) # <<>> => PosLog(p)[1] = <<"enter", NumMw - 1, p>>
           /\ (Len(stack) = 1 => Top.k = "stack" /\ Top.depth = 0)

C3_Witness ==
    /\ prog = "main" /\ phase = "Completed" /\ AllOnce
    /\ NumMw = 1 /\ NumEvents = 2
    /\ Count(log, <<"enter", 0, 0>>) = 1 /\ Count(log, <<"enter", 0, 1>>) = 1

\* A log entry of a handler that raises.
Raises(e) ==
    \/ e[1] = "event" /\ event_handlers[e[3] + 1] = "fail"
    \/ e[1] = "enter" /\ middleware_handlers[e[2] + 1] = "fail"
RaisedErr(e) ==
    IF e[1] = "event" THEN HandlerErr("event", e[3]) ELSE HandlerErr("middleware", e[2])

\* C4: once a handler of position k has failed, no handler is invoked any
\* more (not for k, not for a later position), the run does not complete,
\* and execute returns a failure that carries the failed handler's reason.
C4_AbortOnFailure ==
    prog = "main"
        => \A i \in 1..Len(log) :
            Raises(log[i])
                => /\ i = Len(log)
                   /\ log[i][3] = event_idx
                   /\ \A j \in 1..Len(log) : log[j][3] <= event_idx
                   /\ \/ err = RaisedErr(log[i])
                      \/ \* the handler has been entered and is about to raise
                         /\ err = NoErr /\ stack # <<>>
                         /\ Top.k = "mw" /\ Top.idx = log[i][2] /\ Top.calls = 0
                   /\ phase \in {"Running", "Aborted"}
                   /\ (phase = "Aborted" =>
                        /\ Last(results).outcome = "Failure"
                        /\ Last(results).reason = RaisedErr(log[i]))

C4_Witness ==
    /\ prog = "main" /\ phase = "Aborted"
    /\ event_handlers = <<"fail", "inc">>
    /\ NumMw = 2
    /\ Last(log) = <<"event", 0, 0>>
    /\ Last(results).reason = HandlerErr("event", 0)
\* C5 (as claimed): when the event handler of position k fails, the shared
\* context is the context as it was when position k started, whatever the
\* middleware around it did.
C5_ContextAsOfLastPosition ==
    (prog = "main" /\ phase = "Aborted" /\ err.who = "event")
        => heap[gctx] = pos_ctx

\* C6 (as claimed): a run that completes reports Success, and with
\* middleware that only pass the context on and return what the continuation
\* returned, the final context is the event handlers applied in order to the
\* context the run started with.
C6_PassThroughCumulative ==
    (prog = "main" /\ phase = "Completed"
        /\ \A i \in 1..NumMw : middleware_handlers[i] = "pass")
        => /\ Last(results).outcome = "Success"
           /\ heap[gctx] = ApplyEvents(event_handlers, run_ctx)

\* The first event descriptor of the definition that does not resolve
\* (0 when all resolve).
FirstUnresolved ==
    IF prog = "main"
    THEN IF HasNil(chain_def.events) THEN FirstNil(chain_def.events) ELSE 0
    ELSE IF \E i \in 1..Len(chain_def.events) : ResolveName(chain_def.events[i]) = ""
         THEN CHOOSE i \in 1..Len(chain_def.events) :
                /\ ResolveName(chain_def.events[i]) = ""
                /\ \A j \in 1..(i - 1) : ResolveName(chain_def.events[j]) # ""
         ELSE 0

\* C7: a definition with an event descriptor that does not resolve (an
\* unknown name, an entry without handler) never yields a chain: the build
\* fails before any handler of the chain has run, and when the fields of
\* the definition are there the error names the first such descriptor.
C7_BuildValidation ==
    (FirstUnresolved # 0 /\ (prog = "main" \/ stage = "lua"))
        => /\ phase \in {"Building", "Parsed", "BuildFailed"}
           /\ log = <<>>
           /\ prog = "main" => (event_handlers = <<>> /\ results = <<>> /\ runs = 0)
           /\ prog = "lua_config" => (chain = <<"Increment", "Append">> /\ runs = 0)
           /\ (phase = "BuildFailed" /\ {"context", "events"} \subseteq chain_def.fields)
                => /\ err.kind = "build"
                   /\ err.idx = FirstUnresolved
                   /\ prog = "main" => err.who = "event"
                   /\ prog = "lua_config" => err.who = chain_def.events[FirstUnresolved]

C7_Witness ==
    /\ prog = "lua_config" /\ stage = "lua" /\ phase = "BuildFailed"
    /\ chain_def.events = <<"increment", "Increment">>
    /\ err = BuildErr("Increment", 2)
    /\ log = <<>>

\* C8 (as claimed): every execute of a built chain starts from the chain's
\* initial context, and two completed runs end with the same context.
C8_IndependentRuns ==
    (prog = "main" /\ runs >= 1)
        => /\ run_ctx = chain_def.context
           /\ Len(results) >= 2 => results[2].context = results[1].context

\* The counter and the message an EventContext is read as.
CounterRead(ctx) == unwrap_or(Get(ctx, "counter", "int"), I64(0))
MessageRead(ctx) == unwrap_or(Get(ctx, "message", "str"), <<>>)

\* What the chain [increment, append] is to leave of the context c.
IncrementAppend(c) ==
    Table(LuaInteger(Succ(CounterRead(c))),
          LuaString(Append(MessageRead(c), Tok(" -> processed"))))

\* C9 (as claimed): the chain [increment, append] reports Success with
\* counter = c + 1 and message = m followed by " -> processed", for every
\* integer counter c (absent: 0) and text m (absent: empty).
C9_IncrementAppend ==
    (prog = "lua_config" /\ chain = <<"Increment", "Append">>
        /\ phase \in {"Completed", "Panicked"})
        => /\ phase = "Completed"
           /\ Last(results).outcome = "Success"
           /\ context = IncrementAppend(run_ctx)

\* C9 (amended): the same, for every counter c below i64::MAX.
C9_IncrementAppendBelowMax ==
    (prog = "lua_config" /\ chain = <<"Increment", "Append">>
        /\ phase \in {"Completed", "Panicked"}
        /\ CounterRead(run_ctx) # I64_MAX)
        => /\ phase = "Completed"
           /\ Last(results).outcome = "Success"
           /\ Last(results).context = IncrementAppend(run_ctx)
           /\ context = IncrementAppend(run_ctx)

C9_Witness ==
    /\ prog = "lua_config" /\ stage = "lua" /\ phase = "Completed"
    /\ chain_def.events = <<"increment", "append">>
    /\ run_ctx = Table(LuaNil, LuaString(<<Tok("start")>>))
    /\ context = Table(LuaInteger(I64(1)),
                       LuaString(<<Tok("start"), Tok(" -> processed")>>))

\* C10 (as claimed): a definition with a context and an events field and no
\* middleware field builds, and the chain has an empty middleware stack.
C10_MiddlewareOptional ==
    (prog = "main" /\ chain_def.fields = {"context", "events"}
        /\ ~HasNil(chain_def.events) /\ phase # "Building")
        => /\ phase # "BuildFailed"
           /\ middleware_handlers = <<>>

\* The values a context is written with and read for.
SampleInts == {I64(0), I64(1), I64_MAX, I64_MIN}
SampleTexts == {<<>>, <<Tok("start")>>, <<Tok("start"), Tok(" -> processed")>>}
Keys == {"counter", "message"}
Some(v) == [some |-> TRUE, v |-> v]

ContinuationReturned ==
    /\ prog = "main" /\ phase = "Running" /\ err = NoErr /\ stack # <<>>
    /\ Top.k = "mw" /\ Top.pc = "run" /\ Top.calls >= 1

\* C12 (as claimed): the value a continuation returns to the middleware that
\* invoked it is the shared context as the inner composition stored it, also
\* when an inner handler returned a table other than the one it was given.
C12_ContinuationReturnsShared ==
    ContinuationReturned => (Top.r = gctx /\ heap[Top.r] = heap[gctx])

\* A call of the composition function to which its middleware has returned.
MiddlewareReturned ==
    /\ prog = "main" /\ phase = "Running" /\ err = NoErr /\ stack # <<>>
    /\ Top.k = "stack" /\ Top.pc = "returned"

\* C13: the step that follows a middleware's return sets the shared context
\* to the value the middleware returned, whatever the inner composition had
\* stored, and changes no table; when the middleware is the outermost one
\* the position is over, and between two positions the shared context stays
\* as it is, so that the next position starts from the outermost
\* middleware's return value.
C13_MiddlewareResultStored ==
    [][/\ MiddlewareReturned
            => /\ gctx' = Top.r
               /\ heap' = heap
               /\ Len(stack) = 1 => (stack' = <<>> /\ event_idx' = event_idx + 1)
       /\ (prog = "main" /\ phase = "Running" /\ stack = <<>> /\ err = NoErr)
            => /\ gctx' = gctx
               /\ heap' = heap
               /\ stack' # <<>> => pos_ctx' = heap[gctx]]_vars

\* A pass-through middleware around an event that returns a new table: the
\* middleware returns the table it was given, which replaces the event's
\* table, and the second event works on the middleware's return value.
C13_Witness ==
    /\ prog = "main" /\ phase = "Completed" /\ runs = 1
    /\ middleware_handlers = <<"pass">>
    /\ event_handlers = <<"stamp_new", "inc">>
    /\ gctx = 1 /\ Len(heap) = 2
    /\ heap[gctx] = IncTable(run_ctx)
    /\ heap[2] = StampTable(run_ctx)

\* C14: (a) when a middleware fails before invoking its continuation, the
\* position has no invocation of a deeper middleware and none of the event
\* handler; (b) from the failure of a handler on, every step returns from one
\* frame without storing anything (the shared context, the tables and the
\* invocations stay as they are, no middleware returns) until execute
\* returns the failure as its error.
C14_FailureUnwinds ==
    /\ [](prog = "main"
            => \A i \in 1..Len(log) :
                (log[i][1] = "enter" /\ middleware_handlers[log[i][2] + 1] = "fail")
                    => \A j \in 1..Len(log) :
                        log[j][3] = log[i][3]
                            => /\ log[j][1] = "enter"
                               /\ log[j][2] >= log[i][2])
    /\ [][(prog = "main" /\ phase = "Running" /\ err # NoErr)
            => /\ err' = err /\ gctx' = gctx /\ heap' = heap /\ log' = log
               /\ event_idx' = event_idx
               /\ IF stack # <<>>
                  THEN stack' = Pop(stack) /\ phase' = "Running"
                  ELSE /\ phase' = "Aborted"
                       /\ Last(results').outcome = "Failure"
                       /\ Last(results').reason = err]_vars

\* The innermost middleware fails under a post-processing middleware: the
\* event handler was not invoked, the outer middleware did not return, and
\* the shared context is as the run found it.
C14_Witness ==
    /\ prog = "main" /\ phase = "Aborted"
    /\ middleware_handlers = <<"fail", "post">>
    /\ event_handlers = <<"inc">>
    /\ log = <<<<"enter", 1, 0>>, <<"enter", 0, 0>>>>
    /\ Last(results).reason = HandlerErr("middleware", 0)
    /\ heap[gctx] = run_ctx

\* The invocations are in the order of the positions: none belongs to a
\* position after the one execute is at, and none follows an invocation of a
\* later position.
InDeclaredOrder ==
    /\ \A j \in 1..Len(log) : log[j][3] <= event_idx /\ log[j][3] < NumEvents
    /\ \A i, j \in 1..Len(log) : i < j => log[i][3] <= log[j][3]
    /\ \A j \in 1..Len(log) :
          (log[j][3] = event_idx /\ phase = "Running") => event_idx < NumEvents

\* The event handler of every position has been invoked.
EveryEventInvoked ==
    \A p \in 0..(NumEvents - 1) : \E j \in 1..Len(log) : log[j] = <<"event", p, p>>

\* The middleware that return without invoking the continuation.
NoSkip == \A i \in 1..NumMw : middleware_handlers[i] # "skip"

\* C15 (as claimed): for any middleware stack the invocations are in the
\* order of the positions, and a run that no failure aborts has invoked the
\* event handler of every position.
C15_DeclaredOrderNoSkipping ==
    prog = "main"
        => /\ InDeclaredOrder
           /\ phase = "Completed" => EveryEventInvoked

\* C15 (amended): the same, the second part for the stacks in which every
\* middleware invokes its continuation.
C15_DeclaredOrderNoSkippingWhenContinued ==
    prog = "main"
        => /\ InDeclaredOrder
           /\ (phase = "Completed" /\ NoSkip) => EveryEventInvoked

C15_Witness ==
    /\ prog = "main" /\ phase = "Completed" /\ runs = 1
    /\ middleware_handlers = <<"post", "pre_new">>
    /\ event_handlers = <<"stamp_new", "inc">>
    /\ SelectSeq(log, LAMBDA e : e[1] = "event") = <<<<"event", 0, 0>>, <<"event", 1, 1>>>>

\* The composition function has just been entered.
AtEntry ==
    /\ prog = "main" /\ phase = "Running" /\ err = NoErr /\ stack # <<>>
    /\ Top.k = "stack" /\ Top.pc = "entry"

\* The index the function entered with depth d selects.
SelectedIndex(f) == IF f.static THEN mw_idx_static(f.depth) ELSE mw_idx(f.depth)

\* C16: every call of the composition function has 0 <= depth <= N and an
\* event index below E; a running middleware is the one at N - 1 - depth of
\* the call that selected it, within 0..N-1; the step taken at an entry
\* invokes the event handler when depth = N and the middleware at
\* N - 1 - depth, an index within 0..N-1, when depth < N; and the event
\* handler is invoked by no other step.
C16_DepthAndIndexBounds ==
    /\ [](prog = "main"
            => /\ \A i \in 1..Len(stack) :
                    /\ stack[i].k = "stack" => stack[i].depth \in 0..NumMw
                    /\ stack[i].k = "mw"
                          => /\ stack[i].idx \in 0..(NumMw - 1)
                             /\ stack[i].idx = NumMw - stack[i].depth
                             /\ stack[i].idx + 1 \in DOMAIN middleware_handlers
               /\ stack # <<>> => (event_idx + 1) \in DOMAIN event_handlers)
    /\ [][/\ AtEntry
               => IF Top.depth = NumMw
                  THEN log' = Append(log, <<"event", event_idx, event_idx>>)
                  ELSE /\ Top.depth < NumMw
                       /\ SelectedIndex(Top) \in 0..(NumMw - 1)
                       /\ SelectedIndex(Top) = NumMw - 1 - Top.depth
                       /\ log' = Append(log, <<"enter", SelectedIndex(Top), event_idx>>)
                       /\ stack'[Len(stack')].k = "mw"
                       /\ stack'[Len(stack')].idx = SelectedIndex(Top)
          /\ (prog = "main" /\ log' # log /\ log' # <<>> /\ Last(log')[1] = "event")
               => (AtEntry /\ Top.depth = NumMw)]_vars

\* The deepest call of the last position of a chain with two middleware, and
\* the innermost middleware below it.
C16_Witness ==
    /\ AtEntry
    /\ NumMw = 2 /\ NumEvents = 2 /\ event_idx = 1
    /\ Top.depth = 2 /\ Top.static
    /\ Len(stack) = 7
    /\ stack[5].k = "mw" /\ stack[5].idx = 0
    /\ stack[2].k = "mw" /\ stack[2].idx = 1

\* The handler invocations of the current run.
Invocations == Cardinality({j \in 1..Len(log) : log[j][1] \in {"enter", "event"}})

\* Every middleware invokes its continuation at most once.
AtMostOnce == \A i \in 1..NumMw : middleware_handlers[i] # "twice"

PhaseSteps ==
    {<<"Building", "Ready">>, <<"Building", "BuildFailed">>, <<"Ready", "Running">>,
     <<"Running", "Completed">>, <<"Running", "Aborted">>, <<"Completed", "Running">>}

\* C17: the runner goes Building -> Ready -> Running -> Completed or Aborted
\* (a failed build ends it, and a later execute of a completed chain starts
\* the next run); no handler is invoked before the build has succeeded;
\* Completed is reached with all positions done and no error, Aborted with
\* the error; when every middleware invokes its continuation at most once a
\* run has at most E * (N + 1) handler invocations and, every step that can
\* be taken being taken, a running execute reaches Completed or Aborted;
\* and a finished run invokes no handler.
C17_RunStateMachine ==
    /\ [](prog = "main"
            => /\ phase \in {"Building", "BuildFailed"}
                    => (log = <<>> /\ stack = <<>> /\ runs = 0 /\ results = <<>>)
               /\ phase = "Ready" => (log = <<>> /\ runs = 0 /\ err = NoErr)
               /\ phase = "Completed"
                    => (err = NoErr /\ event_idx = NumEvents /\ stack = <<>>)
               /\ phase = "Aborted" => (err.kind = "handler" /\ stack = <<>>)
               /\ AtMostOnce => Invocations <= NumEvents * (NumMw + 1))
    /\ [][prog = "main"
            => /\ phase' # phase => <<phase, phase'>> \in PhaseSteps
               /\ phase \in {"Completed", "Aborted"}
                    => \/ log' = log /\ phase' = phase
                       \/ phase = "Completed" /\ phase' = "Running" /\ log' = <<>>
               /\ log' # log => (phase = "Running" \/ log' = <<>>)]_vars
    /\ (prog = "main" /\ phase = "Running" /\ AtMostOnce)
            ~> (phase \in {"Completed", "Aborted"})

\* A completed run that used the whole bound: two events under two
\* middleware, six invocations.
C17_Witness ==
    /\ prog = "main" /\ phase = "Completed" /\ AtMostOnce
    /\ NumEvents = 2 /\ NumMw = 2
    /\ Invocations = NumEvents * (NumMw + 1)

\* The values a definition's context field may hold: an integer, a float, a
\* text (taken here without the texts that are no UTF-8).
Allowed(value) ==
    \/ value.kind \in {"int", "float"}
    \/ value.kind = "str" /\ to_string_lossy(value.v) = value.v

\* C18 (as claimed): once the initial context is built from the context
\* field and before the first event executes, every key of the field whose
\* value is an integer, a text or a float is in the context with that value.
C18_ContextFieldsPresent ==
    /\ (prog = "lua_config" /\ stage = "lua" /\ phase \in {"Building", "Ready"})
            => \A key \in DOMAIN chain_def.context :
                Allowed(chain_def.context[key])
                    => context[key] = chain_def.context[key]
    /\ (prog = "main" /\ phase = "Ready")
            => \A key \in DOMAIN chain_def.context :
                Allowed(chain_def.context[key])
                    => heap[gctx][key] = chain_def.context[key]

\* The continuation calls a middleware of a kind makes when nothing fails.
Mult(kind) ==
    CASE kind = "twice" -> 2
      [] kind \in {"skip", "fail"} -> 0
      [] OTHER -> 1

RECURSIVE MultFrom(_)
\* The times the middleware at index i - 1 invokes its continuation in one
\* position: those of one entry, for each time it is entered.
MultFrom(i) == IF i > NumMw THEN 1 ELSE Mult(middleware_handlers[i]) * MultFrom(i + 1)

\* The innermost middleware (index 0) invokes its continuation.
InnermostCallsNext ==
    /\ prog = "main" /\ phase = "Running" /\ err = NoErr /\ Len(stack) >= 2
    /\ Top.k = "next" /\ Top.pc = "entry"
    /\ stack[Len(stack) - 1].k = "mw" /\ stack[Len(stack) - 1].idx = 0

\* C19: every invocation of the innermost middleware's continuation enters
\* the composition at depth N, whose next step invokes the event handler,
\* and with middleware the event handler is invoked by no other way; so in
\* a position that has succeeded the event handler was invoked as often as
\* the innermost middleware invoked its continuation: not at all under a
\* middleware that returns without invoking it (the position succeeds and
\* the run goes on to completion), twice for each entry of a middleware that
\* invokes it twice, as is every middleware below that one.
C19_EventPerContinuationCall ==
    /\ [](prog = "main"
            => /\ \A p \in 0..(NumEvents - 1) :
                    (p < event_idx /\ phase # "Aborted")
                        => /\ Count(log, <<"event", p, p>>) = MultFrom(1)
                           /\ \A i \in 1..NumMw :
                                Count(log, <<"enter", i - 1, p>>) = MultFrom(i + 1)
               /\ (phase = "Completed" /\ \E i \in 1..NumMw : middleware_handlers[i] = "skip")
                    => /\ \A j \in 1..Len(log) : log[j][1] # "event"
                       /\ Last(results).outcome = "Success"
                       /\ event_idx = NumEvents)
    /\ [][/\ InnermostCallsNext
               => /\ stack'[Len(stack')] = StackFrame(NumMw, TRUE)
                  /\ Len(stack') = Len(stack) + 1
          /\ (AtEntry /\ Top.depth = NumMw)
               => log' = Append(log, <<"event", event_idx, event_idx>>)
          /\ (prog = "main" /\ NumMw > 0 /\ log' # log /\ log' # <<>>
                   /\ Last(log')[1] = "event")
               => /\ Len(stack) >= 3
                  /\ stack[Len(stack) - 1].k = "next"
                  /\ stack[Len(stack) - 2].k = "mw" /\ stack[Len(stack) - 2].idx = 0]_vars

\* An innermost middleware that invokes its continuation twice, under one
\* that passes through: the event handler ran twice in each position.
C19_Witness ==
    /\ prog = "main" /\ phase = "Completed" /\ runs = 1
    /\ middleware_handlers = <<"twice", "pass">>
    /\ event_handlers = <<"inc", "inc">>
    /\ Count(log, <<"event", 0, 0>>) = 2 /\ Count(log, <<"event", 1, 1>>) = 2
    /\ Count(log, <<"enter", 0, 0>>) = 1
    /\ CounterOf(heap[gctx]) = I64(CounterOf(run_ctx).off + 4)

\* C20: called with the same handler lists, depth, event index and shared
\* context, execute_middleware_stack and execute_middleware_stack_static
\* make the same handler invocations in the same order, leave the same
\* tables and the same shared context, and return the same outcome.
C20_StackAndStaticAgree ==
    (prog = "compare" /\ cmp.stage = "done") => cmp.first = Observed

\* Both calls made at depth 1 of two middleware, where the inner middleware
\* builds a new table and the event handler returns another: each call
\* enters the inner middleware, invokes the event handler and returns Ok.
C20_Witness ==
    /\ prog = "compare" /\ cmp.stage = "done" /\ cmp.depth = 1
    /\ middleware_handlers = <<"pre_new", "post">>
    /\ event_handlers = <<"stamp_new">>
    /\ cmp.first.log = <<<<"enter", 0, 0>>, <<"event", 0, 0>>, <<"exit", 0, 0>>>>
    /\ log = cmp.first.log
    /\ Len(heap) = 3 /\ err = NoErr
====
